---- MODULE Spec2Model ----
(***************************************************************************)
(* Model of bandwidth_control.py: the trace-driven tc scheduler, its       *)
(* qdisc commands, the cleanup_tc handler and the SIGINT/SIGTERM delivery. *)
(* The main flow is one sequential process (pc); a delivered signal runs   *)
(* cleanup_tc on the same thread (hpc) and its sys.exit(0) unwinds the     *)
(* main flow from the point it was interrupted at.                         *)
(***************************************************************************)
EXTENDS Integers, Sequences, FiniteSets, TLC

\* ---------------------------------------------------------------- bounds
MaxRows == 2
MaxSignals == 1
MaxFailures == 1

\* ------------------------------------------------------ program constants
DEFAULT_LATENCY_MS == 50
DEFAULT_BURST_BYTES == 15000

None == "None"
\* "no exit status" and "no time" among the integers
NoCode == -1
Interface == "s1-eth2"

\* inputs of a run
Argcs == {2, 3, 4, 5}
LatencyArgs == {100}
Offsets == {0, 2}
Rates == {-1, 500, 800, 1000}
\* the rates that rows with a later offset take
LaterRates == {-1, 1000}
\* seconds that go by between two readings of the clock, sleeps apart
Elapsed == {0}

\* A row of the csv file as csv.reader returns it:
\*   blank   []                          (an empty line)
\*   comment first field starts with '#'
\*   hdr     first field is 'time (s)' in any case
\*   bad     float(row[0]) or int(row[1]) raises ValueError/IndexError
\*   data    two fields: row[0] parses as float off, row[1] as int rate
\*   wide    three fields or more, of which row[0] and row[1] parse as in data
DataRows ==
    [kind : {"data"}, off : {0}, rate : Rates]
        \cup [kind : {"data"}, off : Offsets \ {0}, rate : LaterRates]
WideRows == [kind : {"wide"}, off : {0}, rate : {500}]
OtherRows == [kind : {"blank", "comment", "hdr", "bad"}, off : {0}, rate : {0}]
Rows == DataRows \cup WideRows \cup OtherRows

RECURSIVE SeqsUpTo(_, _)
SeqsUpTo(S, n) ==
    IF n = 0 THEN {<< >>}
    ELSE LET shorter == SeqsUpTo(S, n - 1)
         IN  shorter \cup {Append(s, x) : s \in {t \in shorter : Len(t) = n - 1}, x \in S}

Traces == SeqsUpTo(Rows, MaxRows)

VARIABLES
    pc,               \* position of the main flow
    hpc,              \* position of the signal handler ("none": not running)
    argc,             \* len(sys.argv)
    latency,          \* latency in ms
    registered,       \* signal.signal(...) done
    now,              \* time.time()
    start_time,
    last_offset,
    initial_rate_set,
    target_interface, \* the global
    all_rows,
    rows_to_process,
    idx,              \* index of the loop's current row in rows_to_process
    time_offset,
    throughput_kbps,
    pending,          \* exit status of the SystemExit being propagated, or NoCode
    exit_code,        \* status the process ended with, or NoCode
    sigCount,
    fails,            \* commands that did not end with exit status 0
    warnings,         \* "Warning/Error executing tc command" reports printed
    cmds,             \* every run_tc_command call so far, in order
    ops,              \* every apply_bandwidth_latency / change_bandwidth call so far
    sleeps,           \* rows whose time.sleep(sleep_duration) was executed
    broke,            \* row index at which the loop took its break, 0 if none
    fatal,            \* "args", "notfound", "empty", "error" once that was reported
    cleanupCalls,     \* calls of cleanup_tc so far
    loopEnd           \* time at which the loop was left normally, or NoCode

vars == << pc, hpc, argc, latency, registered, now, start_time, last_offset,
           initial_rate_set, target_interface, all_rows, rows_to_process, idx,
           time_offset, throughput_kbps, pending, exit_code, sigCount, fails,
           warnings, cmds, ops, sleeps, broke, fatal, cleanupCalls, loopEnd >>

ctl == << pc, hpc >>
inputs == << argc, latency, all_rows, rows_to_process >>
loopv == << idx, time_offset, throughput_kbps, last_offset, initial_rate_set >>
clock == << now, start_time >>
hist == << ops, sleeps, broke, loopEnd >>
rep == << fatal, cleanupCalls >>
env == << sigCount, fails, warnings >>

\* ------------------------------------------------------------- helpers

\* line 116
ArgsInvalid(n) == n < 3 \/ n > 4

\* line 124
LatencyOf_Default(n, arg) == DEFAULT_LATENCY_MS
LatencyOf(n, arg) == IF n = 4 THEN arg ELSE DEFAULT_LATENCY_MS

\* line 144, the test on all_rows[0][0]
IsHeader(row) == row.kind = "comment" \/ row.kind = "hdr"

\* line 144, all_rows[0][0] of a first row that is []
HeaderRaises(rows) == rows # << >> /\ rows[1].kind = "blank"

\* lines 144-147
RowsAfterHeader(rows) ==
    IF rows # << >> /\ IsHeader(rows[1]) THEN Tail(rows) ELSE rows

\* line 154
SkipRow(row) == row.kind = "blank" \/ row.kind = "comment"

\* lines 157-162
ParseFails(row) == row.kind \notin {"data", "wide"}

\* lines 165-167
SleepDuration_Short(start, off, cur) == (start + off) - cur - 1
SleepDuration_OffsetOnly(start, off, cur) == off
SleepDuration(start, off, cur) == (start + off) - cur

\* line 173
IsSentinel_BelowMinusOne(rate) == rate < -1
IsSentinel(rate) == rate < 0

\* line 177
NeedsInitialApply_Always == TRUE
NeedsInitialApply == ~initial_rate_set

\* line 54
CleanupGuard_RateSet == initial_rate_set
CleanupGuard_Always == TRUE
CleanupGuard == target_interface # None

\* line 62
CleanupExit_Keep(p) == IF p = NoCode THEN 0 ELSE p
CleanupExit(p) == 0

\* the positions of the main flow inside the try statement (lines 138-191),
\* from which an exception is followed by the finally clause
TryPcs == {"open", "header", "row", "time", "sleep", "sentinel",
           "apply_del", "apply_pause", "apply_qdisc", "apply_class",
           "apply_netem", "apply_filter", "except_fnf", "except_exc"}
FinallyPcs == {"finally", "cleanup_del", "cleanup_exit"}
InTry(p) == p \in TryPcs

\* where the main flow is after the handler's sys.exit(0) (line 62) was raised
\* at position p: in the finally clause if p is inside the try, out otherwise
AfterHandler_Return(p) == p
AfterHandler(p) == IF InTry(p) THEN "finally" ELSE "done"

\* outcomes of subprocess.run: exit status 0, exit status # 0, or an exception
\* (the command could not be run at all)
Outcomes == IF fails < MaxFailures THEN {"ok", "nonzero", "raise"} ELSE {"ok"}

\* lines 40-42: what makes run_tc_command raise
Raises_AnyFailure(res) == res # "ok"
Raises_Never(res) == FALSE
Raises(res) == res = "raise"

\* the command line built at lines 58, 80-95 and 110, and how it ended
Cmd(c, by, rate, delay, res) ==
    [cmd |-> c, by |-> by,
     rate |-> IF c \in {"class_add", "class_change"} THEN rate ELSE 0,
     burst |-> IF c \in {"class_add", "class_change"} THEN DEFAULT_BURST_BYTES ELSE 0,
     delay |-> IF c = "netem_add" THEN delay ELSE 0,
     row |-> IF by \in {"apply", "change"} THEN idx ELSE 0,
     raised |-> res = "raise"]

\* run_tc_command (lines 22-42): the command is handed to the shell; a non-zero
\* exit status is reported (lines 29-39) and the call returns
RunTc(c, by, rate, delay, res) ==
    /\ cmds' = Append(cmds, Cmd(c, by, rate, delay, res))
    /\ fails' = IF res = "ok" THEN fails ELSE fails + 1
    /\ warnings' = IF res = "nonzero" THEN warnings + 1 ELSE warnings

Main == hpc = "none"

\* ---------------------------------------------------------------- Init
Init ==
    /\ pc = "args"
    /\ hpc = "none"
    /\ argc = 0
    /\ latency = DEFAULT_LATENCY_MS
    /\ registered = FALSE
    /\ now = 0
    /\ start_time = 0
    /\ last_offset = 0
    /\ initial_rate_set = FALSE
    /\ target_interface = None
    /\ all_rows = << >>
    /\ rows_to_process = << >>
    /\ idx = 0
    /\ time_offset = 0
    /\ throughput_kbps = 0
    /\ pending = NoCode
    /\ exit_code = NoCode
    /\ sigCount = 0
    /\ fails = 0
    /\ warnings = 0
    /\ cmds = << >>
    /\ ops = << >>
    /\ sleeps = << >>
    /\ broke = 0
    /\ fatal = "none"
    /\ cleanupCalls = 0
    /\ loopEnd = NoCode

\* ------------------------------------------------------------- main flow

\* lines 116-119: sys.exit(1) outside any try
ArgsBad ==
    /\ Main /\ pc = "args"
    /\ \E n \in Argcs :
        /\ ArgsInvalid(n)
        /\ argc' = n
    /\ fatal' = "args"
    /\ pc' = "done"
    /\ exit_code' = 1
    /\ UNCHANGED << hpc, latency, registered, clock, loopv, target_interface,
                    all_rows, rows_to_process, pending, env, cmds, hist,
                    cleanupCalls >>

\* lines 121-128
ArgsOk ==
    /\ Main /\ pc = "args"
    /\ \E n \in Argcs :
        /\ ~ArgsInvalid(n)
        /\ argc' = n
        /\ \E a \in LatencyArgs : latency' = LatencyOf(n, a)
    /\ registered' = TRUE
    /\ pc' = "start"
    /\ UNCHANGED << hpc, clock, loopv, target_interface, all_rows, rows_to_process,
                    pending, exit_code, env, cmds, hist, rep >>

\* lines 130-136
Start ==
    /\ Main /\ pc = "start"
    /\ start_time' = now
    /\ last_offset' = 0
    /\ initial_rate_set' = FALSE
    /\ pc' = "open"
    /\ UNCHANGED << hpc, inputs, registered, now, idx, time_offset, throughput_kbps,
                    target_interface, pending, exit_code, env, cmds, hist, rep >>

\* line 139 raising FileNotFoundError
OpenMissing ==
    /\ Main /\ pc = "open"
    /\ pc' = "except_fnf"
    /\ UNCHANGED << hpc, inputs, registered, clock, loopv, target_interface,
                    pending, exit_code, env, cmds, hist, rep >>

\* lines 139-143
OpenRead ==
    /\ Main /\ pc = "open"
    /\ \E t \in Traces : all_rows' = t
    /\ pc' = "header"
    /\ UNCHANGED << hpc, argc, latency, rows_to_process, registered, clock, loopv,
                    target_interface, pending, exit_code, env, cmds, hist, rep >>

\* line 144 raising IndexError
HeaderIndexError ==
    /\ Main /\ pc = "header"
    /\ HeaderRaises(all_rows)
    /\ pc' = "except_exc"
    /\ UNCHANGED << hpc, inputs, registered, clock, loopv, target_interface,
                    pending, exit_code, env, cmds, hist, rep >>

\* lines 144-151, nothing to process: sys.exit(1) inside the try
HeaderEmpty ==
    /\ Main /\ pc = "header"
    /\ ~HeaderRaises(all_rows)
    /\ RowsAfterHeader(all_rows) = << >>
    /\ rows_to_process' = RowsAfterHeader(all_rows)
    /\ fatal' = "empty"
    /\ pending' = 1
    /\ pc' = "finally"
    /\ UNCHANGED << hpc, argc, latency, all_rows, registered, clock, loopv,
                    target_interface, exit_code, env, cmds, hist, cleanupCalls >>

\* lines 144-153
HeaderOk ==
    /\ Main /\ pc = "header"
    /\ ~HeaderRaises(all_rows)
    /\ RowsAfterHeader(all_rows) # << >>
    /\ rows_to_process' = RowsAfterHeader(all_rows)
    /\ idx' = 1
    /\ pc' = "row"
    /\ UNCHANGED << hpc, argc, latency, all_rows, registered, clock, time_offset,
                    throughput_kbps, last_offset, initial_rate_set, target_interface,
                    pending, exit_code, env, cmds, hist, rep >>

\* line 153, the sequence is exhausted: the with and the try end normally
LoopExhausted ==
    /\ Main /\ pc = "row"
    /\ idx > Len(rows_to_process)
    /\ loopEnd' = now
    /\ pc' = "finally"
    /\ UNCHANGED << hpc, inputs, registered, clock, loopv, target_interface,
                    pending, exit_code, env, cmds, ops, sleeps, broke, rep >>

\* lines 154-162: continue
RowSkipped ==
    /\ Main /\ pc = "row"
    /\ idx <= Len(rows_to_process)
    /\ SkipRow(rows_to_process[idx]) \/ ParseFails(rows_to_process[idx])
    /\ idx' = idx + 1
    /\ UNCHANGED << ctl, inputs, registered, clock, time_offset, throughput_kbps,
                    last_offset, initial_rate_set, target_interface, pending,
                    exit_code, env, cmds, hist, rep >>

\* lines 157-159
RowParsed ==
    /\ Main /\ pc = "row"
    /\ idx <= Len(rows_to_process)
    /\ ~SkipRow(rows_to_process[idx]) /\ ~ParseFails(rows_to_process[idx])
    /\ time_offset' = rows_to_process[idx].off
    /\ throughput_kbps' = rows_to_process[idx].rate
    /\ pc' = "time"
    /\ UNCHANGED << hpc, inputs, registered, clock, idx, last_offset,
                    initial_rate_set, target_interface, pending, exit_code, env,
                    cmds, hist, rep >>

\* lines 165-169: time.time() has not gone back since it was last read
ReadClock ==
    /\ Main /\ pc = "time"
    /\ \E e \in Elapsed :
        /\ now' = now + e
        /\ pc' = IF SleepDuration(start_time, time_offset, now + e) > 0
                 THEN "sleep" ELSE "sentinel"
    /\ UNCHANGED << hpc, inputs, registered, start_time, loopv, target_interface,
                    pending, exit_code, env, cmds, hist, rep >>

\* line 171: time.sleep returns when sleep_duration has gone by
Sleep ==
    /\ Main /\ pc = "sleep"
    /\ now' = now + SleepDuration(start_time, time_offset, now)
    /\ sleeps' = Append(sleeps, idx)
    /\ pc' = "sentinel"
    /\ UNCHANGED << hpc, inputs, registered, start_time, loopv, target_interface,
                    pending, exit_code, env, cmds, ops, broke, loopEnd, rep >>

\* lines 173-175: break
Sentinel ==
    /\ Main /\ pc = "sentinel"
    /\ IsSentinel(throughput_kbps)
    /\ broke' = idx
    /\ loopEnd' = now
    /\ pc' = "finally"
    /\ UNCHANGED << hpc, inputs, registered, clock, loopv, target_interface,
                    pending, exit_code, env, cmds, ops, sleeps, rep >>

\* lines 177-179 and 73-77: the call of apply_bandwidth_latency
ApplyEnter ==
    /\ Main /\ pc = "sentinel"
    /\ ~IsSentinel(throughput_kbps)
    /\ NeedsInitialApply
    /\ target_interface' = Interface
    /\ ops' = Append(ops, [op |-> "apply", rate |-> throughput_kbps,
                           at |-> now, row |-> idx])
    /\ pc' = "apply_del"
    /\ UNCHANGED << hpc, inputs, registered, clock, loopv, pending, exit_code,
                    env, cmds, sleeps, broke, loopEnd, rep >>

\* one run_tc_command of apply_bandwidth_latency (lines 80-90)
ApplyCmd(at, c, next) ==
    /\ Main /\ pc = at
    /\ \E res \in Outcomes :
        /\ RunTc(c, "apply", throughput_kbps, latency, res)
        /\ pc' = IF Raises(res) THEN "except_exc" ELSE next
    /\ UNCHANGED << hpc, inputs, registered, clock, loopv, target_interface,
                    pending, exit_code, sigCount, hist, rep >>

\* line 80
ApplyDel_AsAdd == ApplyCmd("apply_del", "qdisc_add", "apply_pause")
ApplyDel == ApplyCmd("apply_del", "qdisc_del", "apply_pause")

\* line 81
ApplyPause ==
    /\ Main /\ pc = "apply_pause"
    /\ pc' = "apply_qdisc"
    /\ UNCHANGED << hpc, inputs, registered, clock, loopv, target_interface,
                    pending, exit_code, env, cmds, hist, rep >>

\* line 84
ApplyQdisc_ClassFirst == ApplyCmd("apply_qdisc", "class_add", "apply_class")
ApplyQdisc == ApplyCmd("apply_qdisc", "qdisc_add", "apply_class")
\* line 87
ApplyClass == ApplyCmd("apply_class", "class_add", "apply_netem")
\* line 90
ApplyNetem == ApplyCmd("apply_netem", "netem_add", "apply_filter")

\* lines 93-97, then 180 and 185
ApplyFilter ==
    /\ Main /\ pc = "apply_filter"
    /\ \E res \in Outcomes :
        /\ RunTc("filter_add", "apply", throughput_kbps, latency, res)
        /\ IF Raises(res)
           THEN /\ pc' = "except_exc"
                /\ UNCHANGED loopv
           ELSE /\ pc' = "row"
                /\ initial_rate_set' = TRUE
                /\ last_offset' = time_offset
                /\ idx' = idx + 1
                /\ UNCHANGED << time_offset, throughput_kbps >>
    /\ UNCHANGED << hpc, inputs, registered, clock, target_interface,
                    pending, exit_code, sigCount, hist, rep >>

\* lines 181-185 and 107-111
Change ==
    /\ Main /\ pc = "sentinel"
    /\ ~IsSentinel(throughput_kbps)
    /\ ~NeedsInitialApply
    /\ ops' = Append(ops, [op |-> "change", rate |-> throughput_kbps,
                           at |-> now, row |-> idx])
    /\ \E res \in Outcomes :
        /\ RunTc("class_change", "change", throughput_kbps, latency, res)
        /\ IF Raises(res)
           THEN /\ pc' = "except_exc"
                /\ UNCHANGED loopv
           ELSE /\ pc' = "row"
                /\ last_offset' = time_offset
                /\ idx' = idx + 1
                /\ UNCHANGED << time_offset, throughput_kbps, initial_rate_set >>
    /\ UNCHANGED << hpc, inputs, registered, clock, target_interface,
                    pending, exit_code, sigCount, sleeps, broke, loopEnd, rep >>

\* lines 187-189: sys.exit(1) inside the except clause
ExceptNotFound ==
    /\ Main /\ pc = "except_fnf"
    /\ fatal' = "notfound"
    /\ pending' = 1
    /\ pc' = "finally"
    /\ UNCHANGED << hpc, inputs, registered, clock, loopv, target_interface,
                    exit_code, env, cmds, hist, cleanupCalls >>

\* lines 190-191: the exception is reported and swallowed
ExceptOther ==
    /\ Main /\ pc = "except_exc"
    /\ fatal' = "error"
    /\ pc' = "finally"
    /\ UNCHANGED << hpc, inputs, registered, clock, loopv, target_interface,
                    pending, exit_code, env, cmds, hist, cleanupCalls >>

\* lines 192-194 and 53-54: cleanup_tc() called from the finally clause
Finally ==
    /\ Main /\ pc = "finally"
    /\ cleanupCalls' = cleanupCalls + 1
    /\ pc' = IF CleanupGuard THEN "cleanup_del" ELSE "cleanup_exit"
    /\ UNCHANGED << hpc, inputs, registered, clock, loopv, target_interface,
                    pending, exit_code, env, cmds, hist, fatal >>

\* lines 55-61: an exception of run_tc_command is caught
CleanupDel ==
    /\ Main /\ pc = "cleanup_del"
    /\ \E res \in Outcomes :
        RunTc("qdisc_del", "cleanup_main", 0, 0, res)
    /\ pc' = "cleanup_exit"
    /\ UNCHANGED << hpc, inputs, registered, clock, loopv, target_interface,
                    pending, exit_code, sigCount, hist, rep >>

\* line 62: sys.exit(0) raised inside the finally clause replaces what was
\* being propagated, and nothing encloses it
CleanupExit0 ==
    /\ Main /\ pc = "cleanup_exit"
    /\ exit_code' = CleanupExit(pending)
    /\ pending' = NoCode
    /\ pc' = "done"
    /\ UNCHANGED << hpc, inputs, registered, clock, loopv, target_interface,
                    env, cmds, hist, rep >>

\* ------------------------------------------------------- signal handling

\* SIGINT or SIGTERM delivered: cleanup_tc(signum, frame) starts on the main
\* thread (lines 53-54); a handler that was running is interrupted in turn
Signal ==
    /\ registered
    /\ pc # "done"
    /\ sigCount < MaxSignals
    /\ sigCount' = sigCount + 1
    /\ cleanupCalls' = cleanupCalls + 1
    /\ hpc' = IF CleanupGuard THEN "del" ELSE "exit"
    /\ UNCHANGED << pc, inputs, registered, clock, loopv, target_interface,
                    pending, exit_code, fails, warnings, cmds, hist, fatal >>

\* lines 55-61 in the handler
HandlerDel ==
    /\ hpc = "del"
    /\ \E res \in Outcomes :
        RunTc("qdisc_del", "cleanup_sig", 0, 0, res)
    /\ hpc' = "exit"
    /\ UNCHANGED << pc, inputs, registered, clock, loopv, target_interface,
                    pending, exit_code, sigCount, hist, rep >>

\* line 62 in the handler: SystemExit(0) is raised at the interrupted point of
\* the main flow; inside the try it is followed by the finally clause
HandlerExit ==
    /\ hpc = "exit"
    /\ hpc' = "none"
    /\ pc' = AfterHandler(pc)
    /\ IF AfterHandler(pc) = "done"
       THEN /\ exit_code' = CleanupExit(pending)
            /\ pending' = NoCode
       ELSE /\ pending' = CleanupExit(pending)
            /\ UNCHANGED exit_code
    /\ UNCHANGED << inputs, registered, clock, loopv, target_interface,
                    env, cmds, hist, rep >>

Next ==
    \/ ArgsBad \/ ArgsOk \/ Start
    \/ OpenMissing \/ OpenRead
    \/ HeaderIndexError \/ HeaderEmpty \/ HeaderOk
    \/ LoopExhausted \/ RowSkipped \/ RowParsed
    \/ ReadClock \/ Sleep \/ Sentinel
    \/ ApplyEnter \/ ApplyDel \/ ApplyPause \/ ApplyQdisc \/ ApplyClass
    \/ ApplyNetem \/ ApplyFilter \/ Change
    \/ ExceptNotFound \/ ExceptOther
    \/ Finally \/ CleanupDel \/ CleanupExit0
    \/ Signal \/ HandlerDel \/ HandlerExit

Spec == Init /\ [][Next]_vars

TypeOK ==
    /\ pc \in TryPcs \cup FinallyPcs \cup {"args", "start", "done"}
    /\ hpc \in {"none", "del", "exit"}
    /\ target_interface \in {None, Interface}
    /\ exit_code \in {NoCode, 0, 1}
    /\ pending \in {NoCode, 0, 1}
    /\ sigCount \in 0 .. MaxSignals
    /\ fails \in 0 .. MaxFailures

\* ------------------------------------------------------------ properties

IsCleanup(c) == c.by \in {"cleanup_main", "cleanup_sig"}
IsShaping(c) == c.by \in {"apply", "change"}
IsBuild(c) == c.cmd \in {"qdisc_add", "class_add", "netem_add", "filter_add",
                         "class_change"}
CleanupDels == {i \in DOMAIN cmds : IsCleanup(cmds[i])}
Exited == pc = "done"

\* a row that lines 157-159 parse
IsData(row) == row.kind \in {"data", "wide"}

\* the rates of the rows that parse, in file order
RECURSIVE UsableRates(_)
UsableRates(rows) ==
    IF rows = << >> THEN << >>
    ELSE IF IsData(rows[1]) THEN << rows[1].rate >> \o UsableRates(Tail(rows))
         ELSE UsableRates(Tail(rows))

\* the part of a sequence of rates before its first negative one
RECURSIVE UpToSentinel(_)
UpToSentinel(rates) ==
    IF rates = << >> \/ rates[1] < 0 THEN << >>
    ELSE << rates[1] >> \o UpToSentinel(Tail(rates))

\* initial apply for the first rate, rate change for the others
OpsFor(rates) ==
    [i \in 1 .. Len(rates) |-> << IF i = 1 THEN "apply" ELSE "change", rates[i] >>]

OpsDone == [i \in 1 .. Len(ops) |-> << ops[i].op, ops[i].rate >>]

IsPrefix(s, t) == Len(s) <= Len(t) /\ \A i \in 1 .. Len(s) : s[i] = t[i]

\* index of the first row that parses, 0 if there is none
FirstUsable(rows) ==
    IF \E i \in DOMAIN rows : IsData(rows[i])
    THEN CHOOSE i \in DOMAIN rows :
            IsData(rows[i]) /\ \A j \in 1 .. (i - 1) : ~IsData(rows[j])
    ELSE 0

\* C1: in every run that got past argument validation, cleanup_tc's
\* "qdisc del dev <interface> root" has been issued exactly once when the
\* process has exited, however the run ended.
C1_TeardownExactlyOnce ==
    (Exited /\ registered) => Cardinality(CleanupDels) = 1

\* C2: when the process has exited, every add/change command issued in the
\* run is followed by a root-qdisc delete command.
C2_NoConfigLeft ==
    Exited =>
        \A i \in DOMAIN cmds :
            IsBuild(cmds[i]) =>
                \E j \in DOMAIN cmds : j > i /\ cmds[j].cmd = "qdisc_del"

C2_Witness ==
    /\ Exited
    /\ sigCount > 0
    /\ \E i \in DOMAIN cmds : IsBuild(cmds[i])
    /\ ~initial_rate_set

\* C3 as stated: for every trace with a usable row, a run that is neither
\* interrupted nor hit by a command failure performs exactly one initial apply
\* followed by rate changes.
C3_ExactlyOneApply ==
    (Exited /\ sigCount = 0 /\ fails = 0 /\ loopEnd # NoCode
        /\ UsableRates(rows_to_process) # << >>) =>
        /\ Len(ops) >= 1
        /\ ops[1].op = "apply"
        /\ \A i \in 2 .. Len(ops) : ops[i].op = "change"

\* C3 amended: the operations performed so far are always a prefix of
\* "initial apply for the first usable row, rate change for each later one, in
\* file order, up to the first negative rate" (none at all when the first
\* usable row is negative), and they are the whole of it once the loop has
\* ended by exhaustion or by the sentinel.
C3_OpsInOrder ==
    /\ IsPrefix(OpsDone, OpsFor(UpToSentinel(UsableRates(rows_to_process))))
    /\ loopEnd # NoCode =>
            OpsDone = OpsFor(UpToSentinel(UsableRates(rows_to_process)))

C3_Witness ==
    /\ Exited
    /\ loopEnd # NoCode
    /\ Len(ops) = 2
    /\ ops[1].rate # ops[2].rate

\* C4: the process exits with status 1 on a wrong number of arguments, on a
\* trace file that is not found and on a trace file that is empty or holds
\* only a header (no signal delivered).
C4_FatalExitsOne ==
    (Exited /\ sigCount = 0 /\ fatal \in {"args", "notfound", "empty"}) =>
        exit_code = 1

\* C5: a process that exits after cleanup_tc ran exits with status 0, whatever
\* triggered the cleanup and wherever a signal was delivered.
C5_CleanupExitsZero ==
    (Exited /\ cleanupCalls > 0) => exit_code = 0

C5_Witness ==
    /\ Exited
    /\ exit_code = 0
    /\ sigCount > 0
    /\ cleanupCalls >= 2
    /\ fatal = "notfound"

\* C6: a call of cleanup issues the teardown command only when the hierarchy
\* is Configured: none when it was never built, and none when an earlier
\* cleanup has already torn it down.
C6_CleanupIdempotent ==
    [][(Len(cmds') = Len(cmds) + 1 /\ IsCleanup(cmds'[Len(cmds')])) =>
            ~(target_interface = None \/ CleanupDels # {})]_vars

\* C7: the signal handler's cleanup and the main flow's end-of-run cleanup
\* never both issue the root-qdisc delete.
C7_MutualExclusion ==
    ~(/\ \E i \in DOMAIN cmds : cmds[i].by = "cleanup_sig"
      /\ \E j \in DOMAIN cmds : cmds[j].by = "cleanup_main")

\* the trace "0,1000" then "2,-1"
C8_Trace ==
    << [kind |-> "data", off |-> 0, rate |-> 1000],
       [kind |-> "data", off |-> 2, rate |-> -1] >>

\* C8: a negative rate is never passed to initial apply or rate change; the
\* loop never goes past a row with a negative rate, and once it has broken out
\* at one, every sleep, operation and shaping command belongs to a row before
\* it or (the sleep) to that row, and the loop ended no earlier than
\* start_time plus that row's offset.  For "0,1000" then "2,-1" a loop that
\* ended did one initial apply at 1000 and no rate change, at or after
\* start_time + 2.
C8_SentinelStops ==
    /\ \A i \in DOMAIN ops : ops[i].rate >= 0
    /\ \A i \in DOMAIN cmds : IsShaping(cmds[i]) => cmds[i].rate >= 0
    /\ \A i \in DOMAIN rows_to_process :
            (IsData(rows_to_process[i]) /\ rows_to_process[i].rate < 0) => idx <= i
    /\ broke # 0 =>
            /\ rows_to_process[broke].rate < 0
            /\ pc \in FinallyPcs \cup {"done"}
            /\ \A i \in DOMAIN ops : ops[i].row < broke
            /\ \A i \in DOMAIN cmds : IsShaping(cmds[i]) => cmds[i].row < broke
            /\ \A i \in DOMAIN sleeps : sleeps[i] <= broke
            /\ loopEnd >= start_time + rows_to_process[broke].off
    /\ (rows_to_process = C8_Trace /\ loopEnd # NoCode) =>
            /\ OpsDone = << << "apply", 1000 >> >>
            /\ \A i \in DOMAIN cmds : cmds[i].cmd # "class_change"
            /\ loopEnd >= start_time + 2

C8_Witness ==
    /\ Exited
    /\ sigCount = 0
    /\ rows_to_process = C8_Trace
    /\ broke = 2
    /\ sleeps = << 2 >>
    /\ Len(ops) = 1

\* C9: when the first usable row of the trace is the sentinel, the run
\* performs no initial apply and no rate change, and it ends with a call of
\* cleanup that reports no failure and exits with status 0.
C9_SentinelFirst ==
    (/\ Exited
     /\ FirstUsable(rows_to_process) # 0
     /\ rows_to_process[FirstUsable(rows_to_process)].rate < 0) =>
        /\ ops = << >>
        /\ \A i \in DOMAIN cmds : ~IsShaping(cmds[i])
        /\ cleanupCalls >= 1
        /\ warnings = 0
        /\ \A i \in DOMAIN cmds : ~cmds[i].raised
        /\ exit_code = 0

C9_Witness ==
    /\ Exited
    /\ sigCount = 0
    /\ broke # 0
    /\ broke = FirstUsable(rows_to_process)
    /\ cleanupCalls = 1

\* the steps left to a process that has been sent a signal
Unwinding == HandlerDel \/ HandlerExit \/ Finally \/ CleanupDel \/ CleanupExit0

\* C10: once a signal has been delivered, no sleep is executed, no row is
\* taken, no initial apply or rate change is called, the only commands issued
\* are cleanup's, and the process always has a step to take toward its exit.
C10_SignalStopsScheduler ==
    /\ [][sigCount > 0 =>
            /\ ops' = ops
            /\ sleeps' = sleeps
            /\ idx' = idx
            /\ now' = now
            /\ cmds' # cmds => IsCleanup(cmds'[Len(cmds')])]_vars
    /\ []((sigCount > 0 /\ ~Exited) => ENABLED Unwinding)

C10_Witness ==
    /\ Exited
    /\ sigCount > 0
    /\ pc = "done"
    /\ Len(ops) = 1
    /\ ~initial_rate_set
    /\ idx < Len(rows_to_process)
    /\ IsData(rows_to_process[idx + 1])

\* what a run that reaches the end of its loop has to perform for its trace
Expected == OpsFor(UpToSentinel(UsableRates(rows_to_process)))

\* the commands issued by apply_bandwidth_latency and by change_bandwidth
ApplyCmds == SelectSeq(cmds, LAMBDA c : c.by = "apply")
ChangeCmds == SelectSeq(cmds, LAMBDA c : c.by = "change")
ChangeOps == SelectSeq(ops, LAMBDA o : o.op = "change")

\* C11: the delay of the netem qdisc is the third argument when it is given
\* and 50 otherwise, the latency of the run never differs from it, and each
\* rate change issues one command, a class change that carries the row's rate
\* and the burst and no delay: no qdisc or filter command.
C11_LatencyFixed ==
    /\ registered => latency = (IF argc = 4 THEN 100 ELSE 50)
    /\ \A i \in DOMAIN cmds :
            /\ cmds[i].cmd = "netem_add" =>
                    /\ cmds[i].delay = (IF argc = 4 THEN 100 ELSE 50)
                    /\ cmds[i].by = "apply"
            /\ cmds[i].by = "change" =>
                    /\ cmds[i].cmd = "class_change"
                    /\ cmds[i].rate = rows_to_process[cmds[i].row].rate
                    /\ cmds[i].burst = 15000
                    /\ cmds[i].delay = 0
                    /\ \E k \in DOMAIN ops :
                            ops[k].op = "change" /\ ops[k].row = cmds[i].row
                    /\ \A j \in DOMAIN cmds :
                            (cmds[j].by = "change" /\ cmds[j].row = cmds[i].row)
                                => j = i

C11_Witness ==
    /\ Exited
    /\ argc = 4
    /\ Len(ChangeCmds) = 1
    /\ \E i \in DOMAIN cmds : cmds[i].cmd = "netem_add" /\ cmds[i].delay = 100

\* C12: every initial apply and rate change happens at a time not earlier
\* than start_time plus its row's offset, and so does the stop at the
\* sentinel; start_time is set once, before the first event; a sleep is
\* executed only while that time is still ahead, and ends no earlier than it.
C12_NeverEarly ==
    /\ [](/\ \A i \in DOMAIN ops :
                ops[i].at >= start_time + rows_to_process[ops[i].row].off
          /\ broke # 0 => loopEnd >= start_time + rows_to_process[broke].off)
    /\ [][/\ start_time' # start_time => pc = "start"
          /\ pc # "start" => start_time' = start_time
          /\ sleeps' # sleeps =>
                /\ now < start_time + time_offset
                /\ now' >= start_time + time_offset]_vars

C12_Witness ==
    /\ Exited
    /\ Len(ops) = 2
    /\ sleeps = << 2 >>
    /\ ops[2].at > ops[1].at

\* the trace "0,500" then "0,800"
C13_Trace ==
    << [kind |-> "data", off |-> 0, rate |-> 500],
       [kind |-> "data", off |-> 0, rate |-> 800] >>

\* C13: operations are performed in row order and no usable row the loop has
\* passed is left out; a row whose offset is not larger than that of every
\* usable row before it is not slept for, and an operation whose offset is
\* not larger than its predecessor's happens at the same time as it; once the
\* loop has ended the last rate applied is that of the last usable row before
\* the sentinel.  "0,500" then "0,800": no sleep, both at one time, last 800.
C13_LateApplied ==
    /\ \A i \in DOMAIN ops : \A j \in DOMAIN ops :
            i < j => ops[i].row < ops[j].row
    /\ \A r \in 1 .. (idx - 1) :
            (r \in DOMAIN rows_to_process /\ IsData(rows_to_process[r])) =>
                \E i \in DOMAIN ops : ops[i].row = r
    /\ \A k \in DOMAIN sleeps : \A r \in 1 .. (sleeps[k] - 1) :
            IsData(rows_to_process[r]) =>
                rows_to_process[r].off < rows_to_process[sleeps[k]].off
    /\ \A i \in 2 .. Len(ops) :
            rows_to_process[ops[i].row].off <= rows_to_process[ops[i - 1].row].off =>
                ops[i].at = ops[i - 1].at
    /\ (loopEnd # NoCode /\ Expected # << >>) =>
            /\ Len(ops) = Len(Expected)
            /\ ops[Len(ops)].rate = Expected[Len(Expected)][2]
    /\ (rows_to_process = C13_Trace /\ loopEnd # NoCode) =>
            /\ OpsDone = << << "apply", 500 >>, << "change", 800 >> >>
            /\ sleeps = << >>
            /\ ops[1].at = ops[2].at

C13_Witness ==
    /\ Exited
    /\ sigCount = 0
    /\ rows_to_process = C13_Trace
    /\ loopEnd # NoCode
    /\ Len(ops) = 2

\* the order of the commands of initial apply
ApplyOrder == << "qdisc_del", "qdisc_add", "class_add", "netem_add", "filter_add" >>

\* C14: the commands of initial apply are the first commands of the run and
\* are, in this order, a prefix of: delete root qdisc, add root htb qdisc, add class 1:1 with
\* the event's rate and burst 15000, add netem with the fixed delay, add the
\* filter; each at most once, none after one that could not be run, and all
\* five once initial apply has returned.
C14_ApplyOrder ==
    /\ \A i \in DOMAIN cmds :
            cmds[i].by = "apply" =>
                /\ i <= Len(ApplyOrder)
                /\ cmds[i].cmd = ApplyOrder[i]
                /\ cmds[i].row = ops[1].row
                /\ \A j \in 1 .. (i - 1) :
                        cmds[j].by = "apply" /\ ~cmds[j].raised
                /\ cmds[i].cmd = "class_add" =>
                        /\ cmds[i].rate = ops[1].rate
                        /\ cmds[i].burst = 15000
                /\ cmds[i].cmd = "netem_add" => cmds[i].delay = latency
    /\ initial_rate_set =>
            /\ Len(cmds) >= Len(ApplyOrder)
            /\ cmds[Len(ApplyOrder)].by = "apply"

C14_Witness ==
    /\ Exited
    /\ initial_rate_set
    /\ Len(ApplyCmds) = 5
    /\ ApplyCmds[5].cmd = "filter_add"

\* C15: in a run without signal in which every command could be run, whatever
\* exit statuses the commands had, the loop reaches its end, every operation
\* of the trace is performed in order, initial apply issues its five commands
\* and each rate change its one, and the teardown is issued last.
C15_NonZeroContinues ==
    (/\ Exited
     /\ sigCount = 0
     /\ rows_to_process # << >>
     /\ \A i \in DOMAIN cmds : ~cmds[i].raised) =>
        /\ loopEnd # NoCode
        /\ OpsDone = Expected
        /\ ops # << >> =>
                /\ Len(ApplyCmds) = 5
                /\ Len(ChangeCmds) = Len(ops) - 1
                /\ Len(cmds) = Len(ops) + 5
                /\ cmds[Len(cmds)].by = "cleanup_main"

C15_Witness ==
    /\ Exited
    /\ sigCount = 0
    /\ warnings > 0
    /\ \A i \in DOMAIN cmds : ~cmds[i].raised
    /\ Len(ops) = 2

\* C16: once a command of initial apply or of a rate change could not be run,
\* the main flow is in the except clause or past it, the loop takes no further
\* row, no further operation is performed, every later command is cleanup's,
\* and the process exits only after cleanup issued the teardown (having
\* reported the error, unless a signal came first).
C16_InvokeFailureFatal ==
    \A i \in DOMAIN cmds :
        (cmds[i].raised /\ IsShaping(cmds[i])) =>
            /\ pc \in {"except_exc"} \cup FinallyPcs \cup {"done"}
            /\ idx = cmds[i].row
            /\ loopEnd = NoCode
            /\ \A j \in DOMAIN cmds : j > i => IsCleanup(cmds[j])
            /\ \A k \in DOMAIN ops : ops[k].row <= cmds[i].row
            /\ Exited =>
                    /\ cleanupCalls >= 1
                    /\ \E j \in DOMAIN cmds : j > i /\ cmds[j].cmd = "qdisc_del"
                    /\ sigCount = 0 => fatal = "error"

C16_Witness ==
    /\ Exited
    /\ sigCount = 0
    /\ \E i \in DOMAIN cmds : cmds[i].raised /\ cmds[i].cmd = "class_add"
    /\ idx < Len(rows_to_process)
    /\ IsData(rows_to_process[idx + 1])

\* the run read its trace file and met neither a signal nor a command that
\* could not be run
PlainRun ==
    /\ Exited
    /\ registered
    /\ sigCount = 0
    /\ fatal # "notfound"
    /\ \A i \in DOMAIN cmds : ~cmds[i].raised

\* C17: a run whose trace has, after its header, no row that parses ends with
\* the empty-trace error, and issues no command of initial apply or of a rate
\* change.  (Files whose first line is blank are left to C19.)
C17_AllFilteredIsEmpty ==
    (/\ PlainRun
     /\ ~HeaderRaises(all_rows)
     /\ UsableRates(RowsAfterHeader(all_rows)) = << >>) =>
        /\ fatal = "empty"
        /\ \A i \in DOMAIN cmds : ~IsShaping(cmds[i])

\* the rates of the rows that have two columns, a float and an integer
RECURSIVE WellFormedRates(_)
WellFormedRates(rows) ==
    IF rows = << >> THEN << >>
    ELSE IF rows[1].kind = "data"
         THEN << rows[1].rate >> \o WellFormedRates(Tail(rows))
         ELSE WellFormedRates(Tail(rows))

\* C18: no operation, command or sleep belongs to a row that is not two
\* columns of a float and an integer, and once the loop has ended the
\* operations performed are those of the trace without such rows.
C18_MalformedDropped ==
    /\ \A i \in DOMAIN ops : rows_to_process[ops[i].row].kind = "data"
    /\ \A i \in DOMAIN cmds :
            IsShaping(cmds[i]) => rows_to_process[cmds[i].row].kind = "data"
    /\ \A k \in DOMAIN sleeps : rows_to_process[sleeps[k]].kind = "data"
    /\ loopEnd # NoCode =>
            OpsDone = OpsFor(UpToSentinel(WellFormedRates(rows_to_process)))

\* C19: a run that read its file performs the operations of the file without
\* its header, blank and comment rows, wherever these rows are: those of the
\* rows of the file that parse, up to the sentinel.
C19_HeaderBlankCommentIgnored ==
    PlainRun => OpsDone = OpsFor(UpToSentinel(UsableRates(all_rows)))

\* C20: target_interface is set exactly when initial apply has been entered;
\* cleanup issues a command only then, and has issued one when a run that
\* entered initial apply exits; a run without operation issues no command;
\* the first command of a run is a "qdisc del" (initial apply's, or cleanup's
\* when a signal precedes it) and the last command of a run that has exited
\* is cleanup's "qdisc del".
C20_Bracket ==
    /\ (target_interface # None) <=> (ops # << >>)
    /\ CleanupDels # {} => ops # << >>
    /\ ops = << >> => cmds = << >>
    /\ \A i \in CleanupDels : cmds[i].cmd = "qdisc_del"
    /\ cmds # << >> => cmds[1].cmd = "qdisc_del"
    /\ (Exited /\ ops # << >>) =>
            /\ CleanupDels # {}
            /\ cmds[Len(cmds)].cmd = "qdisc_del"
            /\ IsCleanup(cmds[Len(cmds)])

C20_Witness ==
    /\ Exited
    /\ sigCount = 0
    /\ Len(cmds) >= 7
    /\ cmds[1].cmd = "qdisc_del"
    /\ cmds[Len(cmds)].by = "cleanup_main"

====
